---------------------------- MODULE Spec2Model ----------------------------
(* CKY chart parser of hw3_parser.py (class CKYParser), modelled step by   *)
(* step: one action per iteration of the loops of parse_tokenized_sentence.*)
(* A tree nltk.Tree(node, children) is the record [label, children]; a     *)
(* production is the record [lhs, rhs] with rhs a tuple of one word or of  *)
(* two nonterminals (Chomsky normal form).                                 *)
EXTENDS Integers, Sequences, FiniteSets

\* Longest tokenized sentence handed to the parser.
MaxLen == 3
\* Largest number of productions of a grammar.
MaxProds == 3
\* Longest sentence of a parser that is called several times.
MaxCallLen == 2

Nonterminals == {"S", "A"}
Words == {"a", "b"}

LexicalProductions == {[lhs |-> n, rhs |-> <<w>>] : n \in Nonterminals, w \in Words}
BinaryProductions ==
    {[lhs |-> n, rhs |-> <<b, c>>] : n \in Nonterminals, b \in Nonterminals, c \in Nonterminals}
AllProductions == LexicalProductions \cup BinaryProductions

\* The grammars in Chomsky normal form a CKYParser is constructed with.
Grammars ==
    {[productions |-> ps, start |-> "S"] :
        ps \in {q \in SUBSET AllProductions : Cardinality(q) <= MaxProds}}

\* The tokenized sentences of at most n words.
Sentences(n) == UNION {[1..m -> Words] : m \in 0..n}

\* The orders in which a Python set of nonterminals can be iterated: fixed by
\* the hash seed of the interpreter process, one of the permutations.
HashOrders ==
    {o \in [1..Cardinality(Nonterminals) -> Nonterminals] :
        \A m, n \in DOMAIN o : o[m] = o[n] => m = n}

VARIABLES
    grammar,    \* self.grammar
    hashOrder,  \* iteration order of sets of nonterminals in this process
    pc,         \* "idle" (constructed), "fill" (in the loops), "done" (returned)
    tokens,     \* tokenized_sentence
    table,      \* the chart: table[<<i, j>>] is the list table[i][j]
    todo,       \* the iterations of the nested loops still to run
    result,     \* valid_parses of the last call that returned
    filled,     \* history: the cells in the order they were first written
    splits,     \* history: the iterations <<i, j, k>> of the innermost loop
    prevRun     \* history: sentence and result of the run before a re-run

vars == <<grammar, hashOrder, pc, tokens, table, todo, result, filled, splits, prevRun>>

----------------------------------------------------------------------------
(* Helpers *)

Range(s) == {s[n] : n \in DOMAIN s}

RECURSIVE Flatten(_)
\* Concatenation of a sequence of lists (repeated cell_contents += subtrees).
Flatten(ss) == IF ss = <<>> THEN <<>> ELSE Head(ss) \o Flatten(Tail(ss))

\* nltk.Tree(node=label, children=children)
Tree(label, children) == [label |-> label, children |-> children]

\* [x for x in S], S a set of nonterminals: the elements in hash order.
SetToList(S, order) == SelectSeq(order, LAMBDA x : x \in S)

\* grammar.productions(rhs=x): the productions whose right-hand side starts
\* with x.
ProductionsRhs(g, x) == {p \in g.productions : p.rhs[1] = x}

----------------------------------------------------------------------------
(* The methods of CKYParser *)

\* __calculate_diagonal_cell with the rhs filter of the lookup left out: every
\* nonterminal with a lexical production labels the word.
CalculateDiagonalCellAnyWord(g, order, current_word) ==
    LET productions_lhs == {p.lhs : p \in {q \in g.productions : Len(q.rhs) = 1}}
        lhs_list == SetToList(productions_lhs, order)
    IN  [n \in 1..Len(lhs_list) |-> Tree(lhs_list[n], <<current_word>>)]

\* __calculate_diagonal_cell
CalculateDiagonalCell(g, order, current_word) ==
    LET productions_lhs == {p.lhs : p \in ProductionsRhs(g, current_word)}
        lhs_list == SetToList(productions_lhs, order)
    IN  [n \in 1..Len(lhs_list) |-> Tree(lhs_list[n], <<current_word>>)]

\* __get_productions_with_rhs: second_rhs in production.rhs() is membership in
\* the whole right-hand side tuple.
GetProductionsWithRhs(g, first_rhs, second_rhs) ==
    {p \in ProductionsRhs(g, first_rhs) : \E n \in DOMAIN p.rhs : p.rhs[n] = second_rhs}

\* The body of the two inner loops of __calculate_intermediate_cell.
Subtrees(g, order, first_list_item, second_list_item) ==
    LET lhs_productions ==
            {p.lhs : p \in GetProductionsWithRhs(g, first_list_item.label,
                                                    second_list_item.label)}
        lhs_list == SetToList(lhs_productions, order)
    IN  [n \in 1..Len(lhs_list) |->
            Tree(lhs_list[n], <<first_list_item, second_list_item>>)]

\* __calculate_intermediate_cell reading table[i][k] for both lists.
CalculateIntermediateCellSameCell(g, order, tbl, i, j, k) ==
    LET first_list == tbl[<<i, k>>]
        second_list == tbl[<<i, k>>]
    IN  Flatten([a \in 1..Len(first_list) |->
            Flatten([b \in 1..Len(second_list) |->
                Subtrees(g, order, first_list[a], second_list[b])])])

\* __calculate_intermediate_cell
CalculateIntermediateCell(g, order, tbl, i, j, k) ==
    LET first_list == tbl[<<i, k>>]
        second_list == tbl[<<k, j>>]
    IN  Flatten([a \in 1..Len(first_list) |->
            Flatten([b \in 1..Len(second_list) |->
                Subtrees(g, order, first_list[a], second_list[b])])])

\* [[list() for x in range(width)] for y in range(height)], width = n + 1
EmptyTable(n) == [c \in (0..n) \X (0..n) |-> <<>>]

\* A table kept on the parser and reused by a call on a sentence of the same
\* length.
StaleTable(n) ==
    IF pc = "done" /\ Len(tokens) = n THEN table ELSE EmptyTable(n)

\* The table a call starts from.
InitialTable(n) == EmptyTable(n)

\* range(i + 1, j - 1): the last split point is skipped.
SplitPointsShort(i, j) == [n \in 1..(j - i - 2) |-> i + n]

\* range(i + 1, j)
SplitPoints(i, j) == [n \in 1..(j - i - 1) |-> i + n]

\* range(0, j): the rows from the top down.
RowsAscending(j) == [n \in 1..j |-> n - 1]

\* range(j - 1, -1, -1)
Rows(j) == [n \in 1..j |-> j - n]

\* The column with its diagonal cell computed after the upward pass.
ColumnIterationsDiagonalLast(j) ==
    Flatten([r \in 1..Len(Rows(j)) |->
            LET i == Rows(j)[r]
            IN  [s \in 1..Len(SplitPoints(i, j)) |->
                    [kind |-> "intermediate", i |-> i, j |-> j, k |-> SplitPoints(i, j)[s]]]])
    \o <<[kind |-> "diagonal", i |-> j - 1, j |-> j, k |-> j]>>

\* The iterations of column j: the diagonal cell, then for each row i and each
\* split point k one call of __calculate_intermediate_cell.
ColumnIterations(j) ==
    <<[kind |-> "diagonal", i |-> j - 1, j |-> j, k |-> j]>>
    \o Flatten([r \in 1..Len(Rows(j)) |->
            LET i == Rows(j)[r]
            IN  [s \in 1..Len(SplitPoints(i, j)) |->
                    [kind |-> "intermediate", i |-> i, j |-> j, k |-> SplitPoints(i, j)[s]]]])

\* for j in range(1, width): ..., width = n + 1
LoopIterations(n) == Flatten([j \in 1..n |-> ColumnIterations(j)])

\* The top-level entries returned without the start-symbol filter.
ValidParsesUnfiltered(g, tbl, n) == tbl[<<0, n>>]

\* valid_parses: the entries of table[0][width-1] labelled with the start symbol
ValidParses(g, tbl, n) ==
    SelectSeq(tbl[<<0, n>>], LAMBDA entry : entry.label = g.start)

----------------------------------------------------------------------------
(* The state machine *)

NoRun == [ran |-> FALSE, tokens |-> <<>>, result |-> <<>>]

Init ==
    /\ grammar \in Grammars
    /\ hashOrder \in HashOrders
    /\ pc = "idle"
    /\ tokens = <<>>
    /\ table = EmptyTable(0)
    /\ todo = <<>>
    /\ result = <<>>
    /\ filled = <<>>
    /\ splits = <<>>
    /\ prevRun = NoRun

\* parse_tokenized_sentence is entered: the table is built.
Enter(tokenized_sentence) ==
    /\ pc' = "fill"
    /\ tokens' = tokenized_sentence
    /\ table' = InitialTable(Len(tokenized_sentence))
    /\ todo' = LoopIterations(Len(tokenized_sentence))
    /\ filled' = <<>>
    /\ splits' = <<>>
    /\ prevRun' = NoRun
    /\ UNCHANGED <<grammar, hashOrder, result>>

\* The first call on the parser.
Call(tokenized_sentence) ==
    /\ pc = "idle"
    /\ Enter(tokenized_sentence)

\* A later call on the same parser, after an earlier call returned.
CallAgain(tokenized_sentence) ==
    /\ pc = "done"
    /\ Enter(tokenized_sentence)

\* table[j - 1][j] = self.__calculate_diagonal_cell(current_word)
Diagonal ==
    /\ pc = "fill"
    /\ todo # <<>>
    /\ Head(todo).kind = "diagonal"
    /\ LET j == Head(todo).j
       IN  /\ table' = [table EXCEPT ![<<j - 1, j>>] =
                            CalculateDiagonalCell(grammar, hashOrder, tokens[j])]
           /\ filled' = Append(filled, <<j - 1, j>>)
    /\ todo' = Tail(todo)
    /\ UNCHANGED <<grammar, hashOrder, pc, tokens, result, splits, prevRun>>

\* table[i][j] += self.__calculate_intermediate_cell(table, i, j, k)
Intermediate ==
    /\ pc = "fill"
    /\ todo # <<>>
    /\ Head(todo).kind = "intermediate"
    /\ LET i == Head(todo).i
           j == Head(todo).j
           k == Head(todo).k
       IN  /\ table' = [table EXCEPT ![<<i, j>>] =
                            @ \o CalculateIntermediateCell(grammar, hashOrder, table, i, j, k)]
           /\ filled' = IF <<i, j>> \in Range(filled) THEN filled
                        ELSE Append(filled, <<i, j>>)
           /\ splits' = Append(splits, <<i, j, k>>)
    /\ todo' = Tail(todo)
    /\ UNCHANGED <<grammar, hashOrder, pc, tokens, result, prevRun>>

\* The loops are over: the top-level entries are filtered and returned.
Return ==
    /\ pc = "fill"
    /\ todo = <<>>
    /\ result' = ValidParses(grammar, table, Len(tokens))
    /\ pc' = "done"
    /\ UNCHANGED <<grammar, hashOrder, tokens, table, todo, filled, splits, prevRun>>

\* main() run once more, in a new interpreter process, on the sentence file it
\* was just run on: a new hash seed, the same grammar, the same sentence.
Rerun ==
    /\ pc = "done"
    /\ ~prevRun.ran
    /\ prevRun' = [ran |-> TRUE, tokens |-> tokens, result |-> result]
    /\ hashOrder' \in HashOrders
    /\ pc' = "fill"
    /\ table' = InitialTable(Len(tokens))
    /\ todo' = LoopIterations(Len(tokens))
    /\ filled' = <<>>
    /\ splits' = <<>>
    /\ UNCHANGED <<grammar, tokens, result>>

Next ==
    \/ \E tokenized_sentence \in Sentences(MaxLen) : Call(tokenized_sentence)
    \/ Diagonal
    \/ Intermediate
    \/ Return

\* A parser is constructed and parses one sentence.
Spec == Init /\ [][Next]_vars

NextCalls ==
    \/ \E tokenized_sentence \in Sentences(MaxCallLen) : Call(tokenized_sentence)
    \/ \E tokenized_sentence \in Sentences(MaxCallLen) : CallAgain(tokenized_sentence)
    \/ Diagonal
    \/ Intermediate
    \/ Return

\* A parser is constructed and parses any number of sentences, one after the
\* other.
SpecCalls == Init /\ [][NextCalls]_vars

NextRuns ==
    \/ Next
    \/ Rerun

\* As Spec, and the program is then run a second time on the same input.
SpecRuns == Init /\ [][NextRuns]_vars

----------------------------------------------------------------------------
(* Derivations, soundness and yield, defined from the grammar alone *)

IsLeaf(t) == Len(t.children) = 1

RECURSIVE Yield(_)
\* The leaf words of a tree, left to right.
Yield(t) ==
    IF IsLeaf(t) THEN t.children
    ELSE Yield(t.children[1]) \o Yield(t.children[2])

RECURSIVE Sound(_, _)
\* Every node of t is an instance of a production of g.
Sound(g, t) ==
    IF IsLeaf(t)
    THEN [lhs |-> t.label, rhs |-> t.children] \in g.productions
    ELSE /\ [lhs |-> t.label, rhs |-> <<t.children[1].label, t.children[2].label>>]
                \in g.productions
         /\ Sound(g, t.children[1])
         /\ Sound(g, t.children[2])

RECURSIVE Derivs(_, _, _, _, _)
\* The derivations of tokens i+1..j of toks from nonterminal x.
Derivs(g, toks, x, i, j) ==
    IF j = i + 1
    THEN IF [lhs |-> x, rhs |-> <<toks[j]>>] \in g.productions
         THEN {Tree(x, <<toks[j]>>)} ELSE {}
    ELSE UNION {
            {Tree(x, <<l, r>>) :
                l \in Derivs(g, toks, p.rhs[1], i, k),
                r \in Derivs(g, toks, p.rhs[2], k, j)} :
            p \in {q \in g.productions : q.lhs = x /\ Len(q.rhs) = 2},
            k \in (i + 1)..(j - 1)}

\* The derivations of the whole sentence from the start symbol.
Derivations(g, toks) ==
    IF toks = <<>> THEN {} ELSE Derivs(g, toks, g.start, 0, Len(toks))

Unknown(g, word) == ProductionsRhs(g, word) = {}


RECURSIVE RunIterations(_, _, _, _, _)
\* The loops of parse_tokenized_sentence run to their end from table tbl.
RunIterations(g, order, toks, tbl, its) ==
    IF its = <<>> THEN tbl
    ELSE LET it == Head(its)
             cell == <<it.i, it.j>>
             next ==
                IF it.kind = "diagonal"
                THEN [tbl EXCEPT ![cell] = CalculateDiagonalCell(g, order, toks[it.j])]
                ELSE [tbl EXCEPT ![cell] =
                        @ \o CalculateIntermediateCell(g, order, tbl, it.i, it.j, it.k)]
         IN  RunIterations(g, order, toks, next, Tail(its))

\* What the first call on a newly constructed parser returns.
FreshParse(g, order, toks) ==
    ValidParses(g,
                RunIterations(g, order, toks, EmptyTable(Len(toks)), LoopIterations(Len(toks))),
                Len(toks))

SpanWidth(cell) == cell[2] - cell[1]

\* The cells (i, j) of the chart whose span contains token position p (0-based).
CellsOver(p, n) == {c \in (0..n) \X (0..n) : c[1] <= p /\ p < c[2]}

----------------------------------------------------------------------------
(* The claims *)

\* C1: soundness: every node of every returned tree is an instance of a
\* production of the grammar: a binary node A over (B, C) of A -> B C, B = C
\* included, and a pre-terminal A over w of A -> w.
Soundness ==
    pc = "done" => \A t \in Range(result) : Sound(grammar, t)

\* C2: completeness: for a sentence of at least one token, every derivation
\* from the start symbol is in the returned list exactly once.
Completeness ==
    (pc = "done" /\ Len(tokens) >= 1) =>
        \A d \in Derivations(grammar, tokens) :
            Cardinality({n \in DOMAIN result : result[n] = d}) = 1

\* C2 witness: a call returned for a sentence with two derivations that have
\* the same root and span and differ in their split point.
CompletenessWitness ==
    /\ pc = "done"
    /\ \E d1, d2 \in Derivations(grammar, tokens) :
        /\ ~IsLeaf(d1)
        /\ ~IsLeaf(d2)
        /\ Len(Yield(d1.children[1])) # Len(Yield(d2.children[1]))

\* C3: a sentence with no derivation from the start symbol gets the empty
\* list.
NoDerivationEmpty ==
    (pc = "done" /\ Derivations(grammar, tokens) = {}) => result = <<>>

\* C4: coverage: every node stored in cell (i, j) yields exactly the tokens
\* i..j-1, and every returned tree yields the whole sentence.
Coverage ==
    /\ \A c \in DOMAIN table : \A t \in Range(table[c]) :
            Yield(t) = SubSeq(tokens, c[1] + 1, c[2])
    /\ pc = "done" => \A t \in Range(result) : Yield(t) = tokens

\* C4 witness: a tree over a three-token sentence using both words is returned.
CoverageWitness ==
    /\ pc = "done"
    /\ Len(tokens) = 3
    /\ Range(tokens) = Words
    /\ result # <<>>

\* C5: determinism: a second run of the parse on the same grammar and the
\* same sentence returns the same trees in the same order.
Determinism ==
    (pc = "done" /\ prevRun.ran) => result = prevRun.result

\* C6: unknown word: if no production has the token at position p as its
\* right-hand side, the diagonal cell of p is empty, and at the end every cell
\* whose span contains p is empty and the returned list is empty.
UnknownWord ==
    \A p \in 1..Len(tokens) :
        (pc # "idle" /\ Unknown(grammar, tokens[p])) =>
            /\ table[<<p - 1, p>>] = <<>>
            /\ pc = "done" =>
                /\ \A c \in CellsOver(p - 1, Len(tokens)) : table[c] = <<>>
                /\ result = <<>>

\* C6 witness: a call returned for a sentence with an unknown word whose
\* chart has a node in some other cell.
UnknownWordWitness ==
    /\ pc = "done"
    /\ \E p \in 1..Len(tokens) : Unknown(grammar, tokens[p])
    /\ \E c \in DOMAIN table : SpanWidth(c) = 2 /\ table[c] # <<>>

\* C7: single token: only cell (0, 1) is populated, no binary step runs, and
\* the result is the one tree start -> word if the grammar has that
\* production and is empty otherwise.
SingleToken ==
    (pc # "idle" /\ Len(tokens) = 1) =>
        /\ splits = <<>>
        /\ \A c \in DOMAIN table : c # <<0, 1>> => table[c] = <<>>
        /\ pc = "done" =>
            result = IF [lhs |-> grammar.start, rhs |-> tokens] \in grammar.productions
                     THEN <<Tree(grammar.start, tokens)>>
                     ELSE <<>>

\* C7 witness: a one-token call returned one tree while the cell holds a
\* second node, labelled with another nonterminal.
SingleTokenWitness ==
    /\ pc = "done"
    /\ Len(tokens) = 1
    /\ Len(result) = 1
    /\ Len(table[<<0, 1>>]) = 2

\* Each split point of each span was visited exactly once.
SplitsOnce ==
    pc = "done" =>
        /\ \A n \in DOMAIN splits :
            LET s == splits[n] IN 0 <= s[1] /\ s[1] < s[3] /\ s[3] < s[2] /\ s[2] <= Len(tokens)
        /\ \A i, j, k \in 0..Len(tokens) :
            (i < k /\ k < j) =>
                Cardinality({n \in DOMAIN splits : splits[n] = <<i, j, k>>}) = 1

\* The cells read by the iterations run so far are not written by this step.
ReadCellsStable ==
    \A n \in DOMAIN splits' :
        LET s == splits'[n]
        IN  /\ table'[<<s[1], s[3]>>] = table[<<s[1], s[3]>>]
            /\ table'[<<s[3], s[2]>>] = table[<<s[3], s[2]>>]

\* C8: dependency order: once cells (i, k) and (k, j) have been read to extend
\* cell (i, j), no node is added to either in the rest of the parse, and
\* every split point of every span is visited exactly once.
DependencyOrder ==
    /\ [][ReadCellsStable]_vars
    /\ []SplitsOnce

\* C8 witness: a three-token parse returned in which cell (1, 3), read for
\* cell (0, 3), and cell (0, 3) both hold nodes.
DependencyOrderWitness ==
    /\ pc = "done"
    /\ Len(tokens) = 3
    /\ table[<<1, 3>>] # <<>>
    /\ table[<<0, 3>>] # <<>>

\* C9 as stated: cells are filled in order of increasing width.
WidthOrder ==
    \A m, n \in DOMAIN filled :
        m < n => SpanWidth(filled[m]) <= SpanWidth(filled[n])

\* C9 as amended: cells are filled column by column, by increasing right end
\* j, and within one column in order of increasing width; so the diagonal
\* cell (j-1, j) is filled before every wider cell ending at j.
ColumnOrder ==
    \A m, n \in DOMAIN filled :
        m < n =>
            \/ filled[m][2] < filled[n][2]
            \/ /\ filled[m][2] = filled[n][2]
               /\ SpanWidth(filled[m]) <= SpanWidth(filled[n])

\* C9 witness: all six cells of a three-token chart have been filled.
ColumnOrderWitness ==
    /\ pc = "done"
    /\ Len(tokens) = 3
    /\ Len(filled) = 6

\* A call starts from an empty chart and returns what a first call on a new
\* parser returns.
FreshChart ==
    /\ (pc = "fill" /\ todo = LoopIterations(Len(tokens))) =>
            table = EmptyTable(Len(tokens))
    /\ pc = "done" => result = FreshParse(grammar, hashOrder, tokens)

\* C10: no state is carried across calls: every call of a sequence of calls
\* builds a new chart, leaves the grammar unchanged and returns what the same
\* call returns as the first call on a newly constructed parser.
NoCarriedState ==
    /\ []FreshChart
    /\ [][grammar' = grammar]_vars

\* C10 witness: a later call is about to return a non-empty list that differs
\* from the non-empty list an earlier call returned.
NoCarriedStateWitness ==
    /\ pc = "fill"
    /\ todo = <<>>
    /\ result # <<>>
    /\ ValidParses(grammar, table, Len(tokens)) # <<>>
    /\ ValidParses(grammar, table, Len(tokens)) # result

============================================================================
